---- MODULE Spec2Model ----
(***************************************************************************)
(* DependencyMatrix of dependenpy/utils.py as a state machine.             *)
(*                                                                         *)
(* A dotted name 'a.s.n' is the sequence of its segments <<"a","s","n">>;  *)
(* segments are non-empty and contain neither '.' nor '/'.  With that      *)
(* representation  x == y                  is  x = y,                      *)
(*                 x.startswith(y + '.')   is  IsDottedPrefix(y, x),       *)
(*                 x + '.' + y             is  x \o y,                     *)
(*                 x.split('.')[:k]        is  the first k segments of x.  *)
(* Python dicts are functions whose DOMAIN is their key set, Python lists  *)
(* are sequences; Python indices stay 0-based as values (source_index,     *)
(* target_index) and are shifted by one where a sequence is subscripted.   *)
(* A raised exception ends the call: the assignments made before it stay,  *)
(* and the exception's name is recorded in last.exc.                       *)
(***************************************************************************)
EXTENDS Integers, Sequences, FiniteSets, TLC

\* ---------------------------------------------------------------- bounds
MaxDecls == 2       \* import declarations in the importing file
MaxLevel == 2       \* largest relative-import level of a declaration
MaxEdges == 3       \* cap on len(self.imports) (failed build_imports can be retried)
MaxOver  == 1       \* get_matrix arguments range over -MaxOver .. max_depth + MaxOver

\* ------------------------------------------------------- Python helpers
None == <<>>
Some(x) == <<x>>

IsDottedPrefix(p, n) == Len(p) < Len(n) /\ SubSeq(n, 1, Len(p)) = p

Max(S) == CHOOSE x \in S : \A y \in S : y <= x

Min(S) == CHOOSE x \in S : \A y \in S : x <= y

Put(d, k, v) == [x \in (DOMAIN d) \cup {k} |-> IF x = k THEN v ELSE d[x]]

Del(d, k) == [x \in (DOMAIN d) \ {k} |-> d[x]]

EmptyDict == [x \in {} |-> TRUE]

\* os.path.splitext(name)[0] on a dotted name: drops the text after the last
\* dot, and returns the name unchanged when it has no dot.
splitext(name) == IF Len(name) > 1 THEN SubSeq(name, 1, Len(name) - 1) ELSE name

\* ---------------------------------------------------------- environment
pkg_a == <<"a">>

pkg_b == <<"b">>

\* what os.listdir / _walk find under a resolved package, in walk order
Tree(package) ==
    IF package = pkg_a
    THEN << <<"__init__">>, <<"m">>, <<"s", "__init__">>, <<"s", "n">> >>
    ELSE << <<"__init__">>, <<"m">> >>

\* the `packages` argument of the constructor
ConstructorArgs ==
    { [kind |-> "str",   value |-> pkg_a],
      [kind |-> "list",  value |-> <<pkg_a, pkg_b>>],
      [kind |-> "odict", value |-> << <<"g1", <<pkg_a>> >>, <<"g2", <<pkg_b>> >> >>] }

ArgPackages(arg) ==
    IF arg.kind = "str" THEN {arg.value}
    ELSE IF arg.kind = "list" THEN {arg.value[i] : i \in DOMAIN arg.value}
    ELSE UNION {{arg.value[i][2][j] : j \in DOMAIN arg.value[i][2]} : i \in DOMAIN arg.value}

\* dotted names that may be written after `from` (level 0) ...
AbsTargets ==
    { <<"a", "m">>, <<"a", "s">>, <<"a", "m", "x">>, <<"a", "zz">>, <<"b", "m">> }

\* ... and the ImportFrom nodes ast.parse can hand to parse_imports:
\* node.module (None for `from . import x`), node.level, node.names
Absolute(t) == [module |-> t, level |-> 0, names |-> IF Len(t) > 2 THEN <<"x", "y">> ELSE <<"x">>]

Nodes ==
    << Absolute(<<"a", "m">>), Absolute(<<"a", "zz">>), Absolute(<<"a", "s">>),
       Absolute(<<"a", "m", "x">>), Absolute(<<"b", "m">>),
       [module |-> None, level |-> 1, names |-> <<"x">>] >>
    \o [l \in 1..MaxLevel |-> [module |-> <<"m">>, level |-> l, names |-> <<"y">>]]

\* the files' contents: up to MaxDecls nodes, repeats allowed, listed in the
\* order of Nodes
Bodies ==
    UNION { { [i \in 1..k |-> Nodes[f[i]]] :
                f \in {g \in [1..k -> DOMAIN Nodes] : \A i \in 1..(k - 1) : g[i] <= g[i + 1]} } :
            k \in 0..MaxDecls }

OnDisk(arg, resolved) ==
    UNION { {p \o Tree(p)[i] : i \in DOMAIN Tree(p)} : p \in ArgPackages(arg) \cap resolved }

\* the files that may hold the import declarations
Importers == { <<"a", "m">>, <<"a", "s", "n">>, <<"b", "m">> }

VARIABLES
    env,                  \* file system and interpreter: resolved, importer, body, keys_view
    packages, groups,     \* self.packages, self.groups
    modules, imports,     \* self.modules, self.imports
    max_depth, matrices,  \* self.max_depth, self.matrices
    _inside,              \* self._inside
    _modules_are_built, _imports_are_built, _matrices_are_built,
    last                  \* the last call: op, args, early (guard returned self), exc, ret

self == <<packages, groups, modules, imports, max_depth, matrices, _inside,
          _modules_are_built, _imports_are_built, _matrices_are_built>>

vars == <<env, packages, groups, modules, imports, max_depth, matrices, _inside,
          _modules_are_built, _imports_are_built, _matrices_are_built, last>>

\* ---------------------------------------------------------- constructor
InitPackages(arg) ==
    IF arg.kind = "str" THEN << <<arg.value>> >>
    ELSE IF arg.kind = "list" THEN << arg.value >>
    ELSE [i \in DOMAIN arg.value |-> arg.value[i][2]]

InitGroups(arg) ==
    IF arg.kind \in {"str", "list"} THEN << "" >>
    ELSE [i \in DOMAIN arg.value |-> arg.value[i][1]]

Init ==
    /\ \E arg \in ConstructorArgs :
         /\ packages = InitPackages(arg)
         /\ groups = InitGroups(arg)
         /\ \E resolved \in SUBSET ArgPackages(arg) :
            \E views \in (IF arg.kind = "odict" THEN BOOLEAN ELSE {FALSE}) :
            \E body \in (IF views THEN {<<>>} ELSE Bodies) :  \* no file is read when _walk fails
            \E importer \in (IF body = <<>> THEN {None} ELSE OnDisk(arg, resolved) \cap Importers) :
               env = [resolved |-> resolved, importer |-> importer,
                      body |-> body, keys_view |-> views]
    /\ modules = <<>>
    /\ imports = <<>>
    /\ max_depth = 0
    /\ matrices = <<>>
    /\ _inside = EmptyDict
    /\ _modules_are_built = FALSE
    /\ _imports_are_built = FALSE
    /\ _matrices_are_built = FALSE
    /\ last = [op |-> "__init__", args |-> <<>>, early |-> FALSE, exc |-> "", ret |-> None]

\* path_resolver(package): a location, or None when the package is not found
path_resolver(package) == IF package \in env.resolved THEN Some(package) ELSE None

\* ast.parse(open(path).read()).body restricted to its ImportFrom nodes
ImportFromNodes(path) == IF path = env.importer THEN env.body ELSE <<>>

Return(op, args, ret) == [op |-> op, args |-> args, early |-> FALSE, exc |-> "", ret |-> ret]

ReturnEarly(op, args) == [op |-> op, args |-> args, early |-> TRUE, exc |-> "", ret |-> None]

Raise(op, args, exc) == [op |-> op, args |-> args, early |-> FALSE, exc |-> exc, ret |-> None]

\* ------------------------------------------------------------ _walk
\* one module dict per *.py file below the package directory; self.groups[group]
\* raises TypeError when groups is a keys view and IndexError past its end
_walk(name, group) ==
    IF Tree(name) = <<>> THEN [exc |-> "", result |-> <<>>]
    ELSE IF env.keys_view THEN [exc |-> "TypeError", result |-> <<>>]
    ELSE IF group + 1 > Len(groups) THEN [exc |-> "IndexError", result |-> <<>>]
    ELSE [exc |-> "",
          result |-> [i \in DOMAIN Tree(name) |->
                        [name |-> name \o Tree(name)[i],
                         path |-> name \o Tree(name)[i],
                         group_index |-> group,
                         group_name |-> groups[group + 1]]]]

\* ------------------------------------------------------ build_modules
\* the two nested loops of build_modules from package pj of group gi on;
\* acc is self.modules as extended so far
RECURSIVE extend_modules(_, _, _)
extend_modules(gi, pj, acc) ==
    IF gi > Len(packages) THEN [exc |-> "", modules |-> acc]
    ELSE IF pj > Len(packages[gi]) THEN extend_modules(gi + 1, 1, acc)
    ELSE LET package == packages[gi][pj]
             module_path == path_resolver(package)
         IN  IF module_path = None THEN extend_modules(gi, pj + 1, acc)
             ELSE LET walked == _walk(package, gi - 1)
                  IN  IF walked.exc # "" THEN [exc |-> walked.exc, modules |-> acc]
                      ELSE extend_modules(gi, pj + 1, acc \o walked.result)

build_modules ==
    IF _modules_are_built
    THEN /\ last' = ReturnEarly("build_modules", <<>>)
         /\ UNCHANGED <<env, self>>
    ELSE LET walked == extend_modules(1, 1, modules)
         IN  /\ modules' = walked.modules
             /\ IF walked.exc # ""
                THEN /\ last' = Raise("build_modules", <<>>, walked.exc)
                     /\ UNCHANGED <<max_depth, _modules_are_built>>
                ELSE IF walked.modules = <<>>
                THEN \* max([]) raises ValueError
                     /\ last' = Raise("build_modules", <<>>, "ValueError")
                     /\ UNCHANGED <<max_depth, _modules_are_built>>
                ELSE /\ max_depth' = Max({Len(walked.modules[i].name) : i \in DOMAIN walked.modules})
                     /\ _modules_are_built' = TRUE
                     /\ last' = Return("build_modules", <<>>, "self")
             /\ UNCHANGED <<env, packages, groups, imports, matrices, _inside,
                            _imports_are_built, _matrices_are_built>>

\* ----------------------------------------------------------- contains
\* returns the value and the containment cache after the call
RECURSIVE in_packages(_, _, _)
in_packages(module, gi, pj) ==
    IF gi > Len(packages) THEN FALSE
    ELSE IF pj > Len(packages[gi]) THEN in_packages(module, gi + 1, 1)
    ELSE LET package == packages[gi][pj]
         IN  IF module = package \/ IsDottedPrefix(package, module) THEN TRUE
             ELSE in_packages(module, gi, pj + 1)

contains(module, inside) ==
    IF module \in DOMAIN inside
    THEN [value |-> inside[module], inside |-> inside]
    ELSE LET found == in_packages(module, 1, 1)
         IN  [value |-> found, inside |-> Put(inside, module, found)]

\* ------------------------------------------------------ parse_imports
\* rebuild_name with the first splitext left out: one segment too few is stripped
rebuild_name_short(name, node) ==
    IF node.level > 0
    THEN LET RECURSIVE strip(_, _)
             strip(mod, level) == IF level = 0 THEN mod ELSE strip(splitext(mod), level - 1)
         IN  strip(name, node.level - 1) \o node.module
    ELSE node.module

\* lines 214-223: the name a declaration imports from, seen from module `name`
rebuild_name(name, node) ==
    IF node.level > 0
    THEN LET RECURSIVE strip(_, _)
             strip(mod, level) == IF level = 0 THEN mod ELSE strip(splitext(mod), level - 1)
         IN  strip(splitext(name), node.level - 1) \o node.module
    ELSE node.module

\* position of key mod in the ordered dict sum_from, 0 when absent
KeyPos(sum_from, mod) ==
    IF \E i \in DOMAIN sum_from : sum_from[i]["from"] = mod
    THEN Min({i \in DOMAIN sum_from : sum_from[i]["from"] = mod})
    ELSE 0

RECURSIVE parse_nodes(_, _, _, _, _)
parse_nodes(nodes, name, force, sum_from, inside) ==
    IF nodes = <<>> THEN [sum_from |-> sum_from, inside |-> inside]
    ELSE LET node == Head(nodes)
         IN  IF node.module = None
             THEN parse_nodes(Tail(nodes), name, force, sum_from, inside)
             ELSE LET mod == rebuild_name(name, node)
                      c == contains(mod, inside)
                      k == KeyPos(sum_from, mod)
                  IN  IF c.value \/ force
                      THEN IF k # 0
                           THEN parse_nodes(Tail(nodes), name, force,
                                    [sum_from EXCEPT ![k]["import"] = @ \o node.names],
                                    c.inside)
                           ELSE parse_nodes(Tail(nodes), name, force,
                                    Append(sum_from, [by |-> name, from |-> mod,
                                                      import |-> node.names]),
                                    c.inside)
                      ELSE parse_nodes(Tail(nodes), name, force, sum_from, c.inside)

parse_imports(module, force, inside) ==
    parse_nodes(ImportFromNodes(module.path), module.name, force, <<>>, inside)

\* ------------------------------------------------------- module_index
\* one loop of module_index over the outcomes of its comparison: the idx of
\* the first module whose comparison holds, None when the loop falls through
FirstIndex(hits) ==
    LET RECURSIVE scan(_)
        scan(idx) == IF idx >= Len(hits) THEN None
                     ELSE IF hits[idx + 1] THEN Some(idx)
                     ELSE scan(idx + 1)
    IN  scan(0)

\* module_index without its second loop
module_index_two_cases(module, mods) ==
    LET Case1 == [i \in DOMAIN mods |-> module = mods[i].name]
        Case3 == [i \in DOMAIN mods |-> IsDottedPrefix(mods[i].name, module)]
    IN  IF FirstIndex(Case1) # None THEN FirstIndex(Case1)
        ELSE FirstIndex(Case3)

\* module_index answering -1 instead of None when no loop matches
module_index_minus_one(module, mods) ==
    LET Case1 == [i \in DOMAIN mods |-> module = mods[i].name]
        Case2 == [i \in DOMAIN mods |-> mods[i].name = module \o <<"__init__">>]
        Case3 == [i \in DOMAIN mods |-> IsDottedPrefix(mods[i].name, module)]
    IN  IF FirstIndex(Case1) # None THEN FirstIndex(Case1)
        ELSE IF FirstIndex(Case2) # None THEN FirstIndex(Case2)
        ELSE IF FirstIndex(Case3) # None THEN FirstIndex(Case3)
        ELSE Some(-1)

module_index(module, mods) ==
    LET Case1 == [i \in DOMAIN mods |-> module = mods[i].name]
        Case2 == [i \in DOMAIN mods |-> mods[i].name = module \o <<"__init__">>]
        Case3 == [i \in DOMAIN mods |-> IsDottedPrefix(mods[i].name, module)]
    IN  IF FirstIndex(Case1) # None THEN FirstIndex(Case1)
        ELSE IF FirstIndex(Case2) # None THEN FirstIndex(Case2)
        ELSE FirstIndex(Case3)

\* list[i] with Python's index rules: an int indexes from either end, None is
\* a TypeError, anything outside -len .. len-1 an IndexError
PyItem(list, i) ==
    IF i = None THEN [exc |-> "TypeError", pos |-> 0]
    ELSE IF i[1] >= 0 /\ i[1] < Len(list) THEN [exc |-> "", pos |-> i[1] + 1]
    ELSE IF i[1] < 0 /\ -i[1] <= Len(list) THEN [exc |-> "", pos |-> Len(list) + i[1] + 1]
    ELSE [exc |-> "IndexError", pos |-> 0]

\* ------------------------------------------------------ build_imports
\* the inner loop: one edge per key of imports_dicts, from key number k on
RECURSIVE append_edges(_, _, _, _)
append_edges(imports_dicts, k, source_index, acc) ==
    IF k > Len(imports_dicts) THEN [exc |-> "", imports |-> acc]
    ELSE LET key == imports_dicts[k]["from"]
             target_index == module_index(key, modules)
             item == PyItem(modules, target_index)
         IN  IF item.exc # "" THEN [exc |-> item.exc, imports |-> acc]
             ELSE append_edges(imports_dicts, k + 1, source_index,
                      Append(acc, [source_name  |-> modules[source_index + 1].name,
                                   source_index |-> source_index,
                                   target_index |-> target_index[1],
                                   target_name  |-> modules[item.pos].name,
                                   imports      |-> << imports_dicts[k] >>,
                                   cardinal     |-> Len(imports_dicts[k]["import"])]))

\* the outer loop, from the module at source_index on
RECURSIVE scan_modules(_, _, _)
scan_modules(source_index, acc, inside) ==
    IF source_index >= Len(modules) THEN [exc |-> "", imports |-> acc, inside |-> inside]
    ELSE LET parsed == parse_imports(modules[source_index + 1], FALSE, inside)
             edges == append_edges(parsed.sum_from, 1, source_index, acc)
         IN  IF edges.exc # ""
             THEN [exc |-> edges.exc, imports |-> edges.imports, inside |-> parsed.inside]
             ELSE scan_modules(source_index + 1, edges.imports, parsed.inside)

\* the guard without its memo test
imports_guard_no_memo == ~_modules_are_built

\* line 112
imports_guard == ~_modules_are_built \/ _imports_are_built

build_imports ==
    IF imports_guard
    THEN /\ last' = ReturnEarly("build_imports", <<>>)
         /\ UNCHANGED <<env, self>>
    ELSE LET built == scan_modules(0, imports, _inside)
         IN  /\ Len(built.imports) <= MaxEdges
             /\ imports' = built.imports
             /\ _inside' = built.inside
             /\ IF built.exc # ""
                THEN /\ last' = Raise("build_imports", <<>>, built.exc)
                     /\ UNCHANGED _imports_are_built
                ELSE /\ _imports_are_built' = TRUE
                     /\ last' = Return("build_imports", <<>>, "self")
             /\ UNCHANGED <<env, packages, groups, modules, max_depth, matrices,
                            _modules_are_built, _matrices_are_built>>

\* ----------------------------------------------------- build_matrices
\* self.matrices is a sequence of None | Some(matrix).  The dict stored at
\* max_depth holds self.modules and self.imports themselves, not copies.
\*
\* _build_up_matrix: up_module is a list (line 245) and is used as a dict key
\* (line 247), which raises TypeError for the first module of the matrix
\* below; with no module, an import fails on modules_indexes (line 265).
_build_up_matrix(mats, down_level) ==
    LET below == mats[down_level + 1][1]
    IN  IF below.modules # <<>> THEN [exc |-> "TypeError", matrix |-> None]
        ELSE IF below.imports # <<>> THEN [exc |-> "KeyError", matrix |-> None]
        ELSE [exc |-> "", matrix |-> Some([modules |-> <<>>, imports |-> <<>>])]

RECURSIVE fold(_, _)
fold(md, mats) ==
    IF md <= 0 THEN [exc |-> "", matrices |-> mats]
    ELSE LET up == _build_up_matrix(mats, md)
         IN  IF up.exc # "" THEN [exc |-> up.exc, matrices |-> mats]
             ELSE fold(md - 1, [mats EXCEPT ![md] = up.matrix])

build_matrices ==
    IF ~_imports_are_built \/ _matrices_are_built
    THEN /\ last' = ReturnEarly("build_matrices", <<>>)
         /\ UNCHANGED <<env, self>>
    ELSE LET md == max_depth
             blank == [x \in 1..md |-> None]
         IN  IF md = 0
             THEN \* [][-1] = ...
                  /\ matrices' = blank
                  /\ last' = Raise("build_matrices", <<>>, "IndexError")
                  /\ UNCHANGED <<env, packages, groups, modules, imports, max_depth, _inside,
                                 _modules_are_built, _imports_are_built, _matrices_are_built>>
             ELSE LET folded == fold(md - 1, [blank EXCEPT ![md] =
                                       Some([modules |-> modules, imports |-> imports])])
                  IN  /\ matrices' = folded.matrices
                      /\ IF folded.exc # ""
                         THEN /\ last' = Raise("build_matrices", <<>>, folded.exc)
                              /\ UNCHANGED _matrices_are_built
                         ELSE /\ _matrices_are_built' = TRUE
                              /\ last' = Return("build_matrices", <<>>, "self")
                      /\ UNCHANGED <<env, packages, groups, modules, imports, max_depth,
                                     _inside, _modules_are_built, _imports_are_built>>

\* --------------------------------------------------------- get_matrix
\* the 0-based position get_matrix reads for a requested depth
matrix_position(matrix) ==
    IF matrix = 0 \/ matrix > max_depth THEN max_depth - 1
    ELSE IF matrix < 0 THEN 0
    ELSE matrix - 1

\* dict(self.matrices[m]): a new top-level dict over the same two lists
get_matrix(matrix) ==
    LET m == matrix_position(matrix)
        item == PyItem(matrices, Some(m))
    IN  IF item.exc # "" THEN [exc |-> item.exc, pos |-> 0, ret |-> None]
        ELSE IF matrices[item.pos] = None THEN [exc |-> "TypeError", pos |-> 0, ret |-> None]
        ELSE [exc |-> "", pos |-> item.pos, ret |-> matrices[item.pos]]

\* ----------------------------------------------------- _option_filter
DEFAULT_OPTIONS ==
    [group_name |-> TRUE, group_index |-> TRUE, source_name |-> TRUE, source_index |-> TRUE,
     target_name |-> TRUE, target_index |-> TRUE, imports |-> TRUE, cardinal |-> TRUE]

\* the eight tests of _option_filter in their order, with the list each one walks
OptionOrder ==
    << <<"group_name", "modules">>, <<"group_index", "modules">>,
       <<"source_name", "imports">>, <<"source_index", "imports">>,
       <<"target_name", "imports">>, <<"target_index", "imports">>,
       <<"imports", "imports">>, <<"cardinal", "imports">> >>

\* for item in items: del item[key] -- KeyError at the first item without the key
del_key(items, key) ==
    LET missing == {i \in DOMAIN items : key \notin DOMAIN items[i]}
        stop == IF missing = {} THEN Len(items) + 1 ELSE Min(missing)
    IN  [exc |-> IF missing = {} THEN "" ELSE "KeyError",
         items |-> [i \in DOMAIN items |-> IF i < stop THEN Del(items[i], key) ELSE items[i]]]

RECURSIVE filter_from(_, _, _)
filter_from(n, matrix, options) ==
    IF n > Len(OptionOrder) THEN [exc |-> "", matrix |-> matrix]
    ELSE IF options[OptionOrder[n][1]] THEN filter_from(n + 1, matrix, options)
    ELSE LET deleted == del_key(matrix[OptionOrder[n][2]], OptionOrder[n][1])
             after == [matrix EXCEPT ![OptionOrder[n][2]] = deleted.items]
         IN  IF deleted.exc # "" THEN [exc |-> deleted.exc, matrix |-> after]
             ELSE filter_from(n + 1, after, options)

_option_filter(matrix, options) == filter_from(1, matrix, options)

\* ----------------------------------------------------- matrix_to_json
\* The items _option_filter deletes from are the dicts of the stored lists:
\* what it leaves is what self.matrices[m] holds afterwards, and at max_depth
\* also what self.modules and self.imports hold.
matrix_to_json(matrix, options) ==
    LET got == get_matrix(matrix)
        args == <<>>
    IN  IF got.exc # ""
        THEN /\ last' = Raise("matrix_to_json", args, got.exc)
             /\ UNCHANGED <<env, self>>
        ELSE LET filtered == _option_filter(got.ret[1], options)
             IN  /\ matrices' = [matrices EXCEPT ![got.pos] = Some(filtered.matrix)]
                 /\ IF got.pos = max_depth
                    THEN /\ modules' = filtered.matrix.modules
                         /\ imports' = filtered.matrix.imports
                    ELSE UNCHANGED <<modules, imports>>
                 /\ last' = IF filtered.exc # ""
                            THEN Raise("matrix_to_json", args, filtered.exc)
                            ELSE Return("matrix_to_json", args, Some(filtered.matrix))
                 /\ UNCHANGED <<env, packages, groups, max_depth, _inside,
                                _modules_are_built, _imports_are_built, _matrices_are_built>>

\* -------------------------------------------------------------- calls
Disabled(keys) == [k \in DOMAIN DEFAULT_OPTIONS |-> k \notin keys]

OptionChoices == { DEFAULT_OPTIONS, Disabled({"cardinal"}), Disabled(DOMAIN DEFAULT_OPTIONS) }

Depths == (0 - MaxOver) .. (max_depth + MaxOver)

QueryTargets == AbsTargets \cup { <<"a">> }

call_module_index ==
    \E module \in QueryTargets :
        /\ last' = Return("module_index", <<module>>, module_index(module, modules))
        /\ UNCHANGED <<env, self>>

call_parse_imports ==
    \E i \in DOMAIN modules : \E force \in BOOLEAN :
        LET parsed == parse_imports(modules[i], force, _inside)
        IN  /\ _inside' = parsed.inside
            /\ last' = Return("parse_imports", <<force>>, parsed.sum_from)
            /\ UNCHANGED <<env, packages, groups, modules, imports, max_depth, matrices,
                           _modules_are_built, _imports_are_built, _matrices_are_built>>

call_get_matrix ==
    \E matrix \in Depths :
        LET got == get_matrix(matrix)
        IN  /\ last' = IF got.exc # "" THEN Raise("get_matrix", <<matrix>>, got.exc)
                       ELSE Return("get_matrix", <<matrix>>, got.ret)
            /\ UNCHANGED <<env, self>>

call_matrix_to_json ==
    \E matrix \in Depths : \E options \in OptionChoices : matrix_to_json(matrix, options)

\* ------------------------------------------------------ specifications
Next ==
    \/ build_modules
    \/ build_imports
    \/ build_matrices
    \/ call_module_index
    \/ call_parse_imports
    \/ call_get_matrix
    \/ call_matrix_to_json

Spec == Init /\ [][Next]_vars

\* the build pipeline alone
NextBuild ==
    \/ build_modules
    \/ build_imports
    \/ build_matrices

SpecBuild == Init /\ [][NextBuild]_vars

\* the build pipeline and the two lookups
NextLookup ==
    \/ build_modules
    \/ build_imports
    \/ build_matrices
    \/ call_module_index
    \/ call_parse_imports

SpecLookup == Init /\ [][NextLookup]_vars

\* the build pipeline and the accessor
NextAccess ==
    \/ build_modules
    \/ build_imports
    \/ build_matrices
    \/ call_get_matrix
    \/ call_matrix_to_json

SpecAccess == Init /\ [][NextAccess]_vars

\* ============================================================ claims
ModuleNames == {modules[i].name : i \in DOMAIN modules}

ConfiguredPackages == UNION {{packages[g][j] : j \in DOMAIN packages[g]} : g \in DOMAIN packages}

RECURSIVE CardinalSum(_)
CardinalSum(edges) ==
    IF edges = <<>> THEN 0 ELSE Head(edges).cardinal + CardinalSum(Tail(edges))

RECURSIVE SymbolCount(_)
SymbolCount(records) ==
    IF records = <<>> THEN 0 ELSE Len(Head(records)["import"]) + SymbolCount(Tail(records))

BuildRan(op) == last.op = op /\ ~last.early

\* C1: after build_matrices, every depth 1..max_depth holds a matrix whose
\* cardinals sum to the same total as those of the max_depth matrix.
C1_CardinalConserved ==
    BuildRan("build_matrices") =>
        \A d \in 1..max_depth :
            /\ d \in DOMAIN matrices
            /\ matrices[d] # None
            /\ CardinalSum(matrices[d][1].imports) = CardinalSum(matrices[max_depth][1].imports)

\* C2: a matrix_to_json call leaves every entry of self.matrices as it was.
C2_ProjectionKeepsStored ==
    [][last'.op = "matrix_to_json" => matrices' = matrices]_vars

\* C3: no stored matrix, the max_depth one included, has two edges with the
\* same (source_index, target_index).
C3_OneEdgePerPair ==
    \A d \in DOMAIN matrices :
        matrices[d] # None =>
            LET edges == matrices[d][1].imports
            IN  \A i, j \in DOMAIN edges :
                    i # j => <<edges[i].source_index, edges[i].target_index>>
                             # <<edges[j].source_index, edges[j].target_index>>

\* C4: once build_matrices has filled self.matrices, get_matrix(k) does not
\* fail and returns the matrix of depth max_depth for k = 0 or k > max_depth,
\* of depth 1 for k < 0, and of depth k otherwise.
ClampedDepth(k) == IF k = 0 \/ k > max_depth THEN max_depth ELSE IF k < 0 THEN 1 ELSE k

C4_DepthClamp ==
    (last.op = "get_matrix" /\ matrices # <<>>) =>
        /\ last.exc = ""
        /\ matrices[ClampedDepth(last.args[1])] # None
        /\ last.ret = matrices[ClampedDepth(last.args[1])]

\* C5 as claimed: module_index(target) is the first module equal to the target,
\* else the first module named target.__init__, else the first module of whose
\* name the target is a dotted prefix, else None.
FirstOf(S) == IF S = {} THEN None ELSE Some(Min(S) - 1)

Tiered(T1, T2, T3) == IF T1 # {} THEN FirstOf(T1) ELSE IF T2 # {} THEN FirstOf(T2) ELSE FirstOf(T3)

Exact(t) == {i \in DOMAIN modules : modules[i].name = t}

InitOf(t) == {i \in DOMAIN modules : modules[i].name = t \o <<"__init__">>}

Below(t) == {i \in DOMAIN modules : IsDottedPrefix(t, modules[i].name)}

Above(t) == {i \in DOMAIN modules : IsDottedPrefix(modules[i].name, t)}

DeclaredNodes(name) ==
    {ImportFromNodes(name)[i] : i \in {j \in DOMAIN ImportFromNodes(name) :
                                          ImportFromNodes(name)[j].module # None}}

StripExactly(name, L) == IF L < Len(name) THEN SubSeq(name, 1, Len(name) - L) ELSE <<>>

StripKeepingFirst(name, L) == SubSeq(name, 1, Max({1, Len(name) - L}))

ForcedParse == last.op = "parse_imports" /\ last.args[1] /\ last.ret # <<>>

C8_AsClaimed ==
    ForcedParse =>
        {last.ret[i]["from"] : i \in DOMAIN last.ret}
            = {IF node.level > 0 THEN StripExactly(last.ret[1].by, node.level) \o node.module
                                 ELSE node.module : node \in DeclaredNodes(last.ret[1].by)}

\* C8 amended: level L > 0 strips L trailing segments but never the first one
\* (min(L, segments - 1) of them); level 0 keeps the declared name.
C8_RelativeRewrite ==
    ForcedParse =>
        {last.ret[i]["from"] : i \in DOMAIN last.ret}
            = {IF node.level > 0 THEN StripKeepingFirst(last.ret[1].by, node.level) \o node.module
                                 ELSE node.module : node \in DeclaredNodes(last.ret[1].by)}

\* C8 witness: a.s.n importing with level 2 and suffix m resolved to a.m
C8_Witness ==
    /\ ForcedParse
    /\ last.ret[1].by = <<"a", "s", "n">>
    /\ \A node \in DeclaredNodes(last.ret[1].by) : node.level = 2
    /\ \E i \in DOMAIN last.ret : last.ret[i]["from"] = <<"a", "m">>

\* C6: the stage only moves forward one step at a time, and a build call
\* that is out of order or repeated returns without error and leaves modules,
\* imports, max_depth, matrices and the three flags unchanged.
Stage ==
    (IF _modules_are_built THEN 1 ELSE 0) + (IF _imports_are_built THEN 1 ELSE 0)
        + (IF _matrices_are_built THEN 1 ELSE 0)

StageOrdered ==
    /\ _matrices_are_built => _imports_are_built
    /\ _imports_are_built => _modules_are_built

Misplaced(op) ==
    \/ op = "build_modules" /\ _modules_are_built
    \/ op = "build_imports" /\ (~_modules_are_built \/ _imports_are_built)
    \/ op = "build_matrices" /\ (~_imports_are_built \/ _matrices_are_built)

C6_StagesForwardOnly ==
    [][ /\ Stage' \in {Stage, Stage + 1}
        /\ StageOrdered'
        /\ Misplaced(last'.op) =>
              /\ last'.exc = ""
              /\ UNCHANGED <<modules, imports, max_depth, matrices, _modules_are_built,
                             _imports_are_built, _matrices_are_built>> ]_vars

\* C6 witness: build_imports called again after the imports were built
C6_Witness ==
    /\ last.op = "build_imports" /\ last.early
    /\ _imports_are_built
    /\ imports # <<>>

\* C7: build_modules raises nothing, yields exactly the modules of the
\* configured packages that resolve, and marks the modules stage built.
C7_UnresolvedSkipped ==
    BuildRan("build_modules") =>
        /\ last.exc = ""
        /\ _modules_are_built
        /\ ModuleNames = UNION {{p \o Tree(p)[i] : i \in DOMAIN Tree(p)} :
                                   p \in ConfiguredPackages \cap env.resolved}

\* C9: after build_matrices every depth holds a matrix, and each of its edges
\* has a cardinal equal to the number of symbol names in its imports list.
C9_CardinalCountsSymbols ==
    BuildRan("build_matrices") =>
        /\ last.exc = ""
        /\ \A d \in DOMAIN matrices :
              /\ matrices[d] # None
              /\ \A i \in DOMAIN matrices[d][1].imports :
                    matrices[d][1].imports[i].cardinal
                        = SymbolCount(matrices[d][1].imports[i].imports)

\* C10: every edge of self.imports points at a position of self.modules and
\* carries that module's name, and a build_imports that met a contained target
\* no lookup tier matches ended in an exception.
Contained(t) == \E p \in ConfiguredPackages : t = p \/ IsDottedPrefix(p, t)

Matched(t) == Exact(t) \cup InitOf(t) \cup Above(t) # {}

DeclaredTargets ==
    UNION {{rebuild_name(n, node) : node \in DeclaredNodes(n)} : n \in ModuleNames}

C10_NoDanglingEdge ==
    /\ \A k \in DOMAIN imports :
          /\ imports[k].target_index \in 0..(Len(modules) - 1)
          /\ imports[k].target_name = modules[imports[k].target_index + 1].name
    /\ (BuildRan("build_imports") /\ \E t \in DeclaredTargets : Contained(t) /\ ~Matched(t))
          => last.exc # "" /\ ~_imports_are_built

\* C10 witness: build_imports failed on a contained, unmatched target after
\* appending an edge
C10_Witness ==
    /\ BuildRan("build_imports")
    /\ last.exc = "TypeError"
    /\ imports # <<>>
    /\ \E t \in DeclaredTargets : Contained(t) /\ ~Matched(t)

====
